---- MODULE Spec2Model ----
(***************************************************************************)
(* A model of the NenDB Python driver (src/src/nen_python_driver):         *)
(* NenDBClient (client.py) and its error taxonomy (exceptions.py).         *)
(*                                                                         *)
(* The client is a state machine: it is constructed, operations are        *)
(* invoked on it (validated, joined with the base address, dispatched to   *)
(* session.request, interpreted), and it is closed.  session.request is    *)
(* the boundary to the requests library: what it returns or raises is the  *)
(* environment's choice, and the handlers of _make_request decide what the *)
(* caller sees.                                                            *)
(***************************************************************************)
EXTENDS Integers, Sequences, FiniteSets, TLC

VARIABLES phase, ctor, client, session, scope, calls, ctorError, made

vars == <<phase, ctor, client, session, scope, calls, ctorError, made>>

(***************************************************************************)
(* Bounds of the model.                                                    *)
(***************************************************************************)
\* integer arguments are drawn from -1 .. MaxInt
MaxInt == 1
\* session.close() is counted up to MaxClose calls
MaxClose == 2
\* the most retries of a session under Spec (SpecRetry has the default 3)
MaxRetries == 1

(***************************************************************************)
(* Python values.  Each type has its own field name, so values of          *)
(* different types are different records.  A float holds millionths:       *)
(* PyFloat(850000) is 0.85, PyFloat(1) is 1e-6.                            *)
(***************************************************************************)
PyInt(n) == [t |-> "int", i |-> n]
PyFloat(u) == [t |-> "float", f |-> u]
PyStr(s) == [t |-> "str", s |-> s]
PyDict(ks) == [t |-> "dict", keys |-> ks]
PyNone == [t |-> "NoneType"]
\* a bool is an int: True is 1, False is 0
PyBool(b) == [t |-> "bool", i |-> IF b THEN 1 ELSE 0]

\* isinstance(x, int)
IsInt(x) == x.t \in {"int", "bool"}
\* isinstance(x, float)
IsFloat(x) == x.t = "float"
\* isinstance(x, str)
IsStr(x) == x.t = "str"

\* truth value of an argument (if filters: ...)
Truthy(x) ==
    CASE x.t = "NoneType" -> FALSE
      [] x.t = "dict" -> x.keys # {}
      [] x.t = "str" -> x.s # ""
      [] x.t \in {"int", "bool"} -> x.i # 0
      [] x.t = "float" -> x.f # 0
      [] OTHER -> TRUE

\* the empty mapping {}
EmptyDict == [k \in {} |-> 0]

(***************************************************************************)
(* The arguments callers pass.                                             *)
(***************************************************************************)
Ops == {"health", "graph_stats", "bfs", "dijkstra", "pagerank"}

\* an argument the caller leaves out, so that the parameter's default applies
Omitted == [t |-> "omitted"]

NodeArgs == {PyInt(n) : n \in (0 - 1)..MaxInt} \cup {PyStr("n0")}
DepthArgs == {PyInt(n) : n \in 0..MaxInt} \cup {PyFloat(1000000), Omitted}
FilterArgs == {PyNone, PyDict({}), PyDict({"label"})}
WeightArgs == {PyStr("weight"), PyStr(""), PyNone, Omitted}
IterArgs == {PyInt(n) : n \in 0..MaxInt} \cup {PyFloat(1000000), Omitted}
DampingArgs == {PyFloat(0 - 500000), PyFloat(0), Omitted,
                PyFloat(1000000), PyFloat(1500000), PyInt(1)}
ToleranceArgs == {PyFloat(0 - 1), PyFloat(0), PyFloat(1), PyInt(1)}

NoArgs == [none |-> TRUE]

ArgsOf(op) ==
    CASE op = "bfs" ->
           [start_node : NodeArgs, max_depth : DepthArgs, filters : FilterArgs]
      [] op = "dijkstra" ->
           [start_node : NodeArgs, end_node : NodeArgs,
            weight_property : WeightArgs]
      [] op = "pagerank" ->
           [iterations : IterArgs, damping_factor : DampingArgs,
            tolerance : ToleranceArgs]
      [] OTHER -> {NoArgs}

\* the value a parameter is bound to: the argument, or the default
OrDefault(x, default) == IF x = Omitted THEN default ELSE x

\* Bind with max_depth defaulting to 1
BindDepthOne(op, kw) ==
    CASE op = "bfs" ->
           [start_node |-> kw.start_node,
            max_depth |-> OrDefault(kw.max_depth, PyInt(1)),
            filters |-> OrDefault(kw.filters, PyNone)]
      [] op = "dijkstra" ->
           [start_node |-> kw.start_node, end_node |-> kw.end_node,
            weight_property |-> OrDefault(kw.weight_property, PyStr("weight"))]
      [] op = "pagerank" ->
           [iterations |-> OrDefault(kw.iterations, PyInt(100)),
            damping_factor |-> OrDefault(kw.damping_factor, PyFloat(850000)),
            tolerance |-> OrDefault(kw.tolerance, PyFloat(1))]
      [] OTHER -> kw

\* lines 180-185, 214-219, 255-260: the parameters of an operation method
\* bound to the arguments kw of a call
Bind(op, kw) ==
    CASE op = "bfs" ->
           [start_node |-> kw.start_node,
            max_depth |-> OrDefault(kw.max_depth, PyInt(3)),
            filters |-> OrDefault(kw.filters, PyNone)]
      [] op = "dijkstra" ->
           [start_node |-> kw.start_node, end_node |-> kw.end_node,
            weight_property |-> OrDefault(kw.weight_property, PyStr("weight"))]
      [] op = "pagerank" ->
           [iterations |-> OrDefault(kw.iterations, PyInt(100)),
            damping_factor |-> OrDefault(kw.damping_factor, PyFloat(850000)),
            tolerance |-> OrDefault(kw.tolerance, PyFloat(1))]
      [] OTHER -> kw

(***************************************************************************)
(* exceptions.py: the error taxonomy.                                      *)
(***************************************************************************)
NenDBClasses == {"NenDBError", "NenDBConnectionError", "NenDBTimeoutError",
                 "NenDBValidationError", "NenDBAlgorithmError",
                 "NenDBResponseError"}

\* The classes an exception of class cls is an instance of.  The classes of
\* requests.exceptions are the ones the handlers of _make_request name:
\* ConnectTimeout derives from both ConnectionError and Timeout.
Bases(cls) ==
    CASE cls \in NenDBClasses -> {cls, "NenDBError", "Exception"}
      [] cls = "ReadTimeout" ->
           {cls, "Timeout", "RequestException", "Exception"}
      [] cls = "ConnectTimeout" ->
           {cls, "ConnectionError", "Timeout", "RequestException", "Exception"}
      [] cls \in {"ConnectionError", "HTTPError", "RetryError"} ->
           {cls, "RequestException", "Exception"}
      [] cls = "JSONDecodeError" -> {cls, "ValueError", "Exception"}
      [] OTHER -> {cls, "Exception"}

\* isinstance(exc, base), as an except clause tests it
IsInstance(exc, base) == base \in Bases(exc.cls)

\* NenDBError.__init__(message, details=None): self.details = details or {}
\* (None and the empty mapping are both falsy)
NenDBError(cls, message, details) ==
    [cls |-> cls, message |-> message,
     details |-> IF details # PyNone /\ DOMAIN details # {}
                 THEN details
                 ELSE EmptyDict]

\* an exception of another library: it has no details attribute
LibError(cls, message) == [cls |-> cls, message |-> message]

\* Str that never shows the details
StrMessageOnly(exc) == [text |-> exc.message]

\* NenDBError.__str__; str() of any other exception is its message
Str(exc) ==
    IF exc.cls \in NenDBClasses /\ DOMAIN exc.details # {}
    THEN [text |-> exc.message, sep |-> " - Details: ", details |-> exc.details]
    ELSE [text |-> exc.message]

(***************************************************************************)
(* client.py: pre-flight validation of bfs, dijkstra and pagerank.  Each   *)
(* operator is the sequence of if-statements of the method: the first test *)
(* that fails raises, "ok" means that none did.                            *)
(***************************************************************************)
Raise(msg) ==
    [ok |-> FALSE,
     exc |-> NenDBError("NenDBValidationError", [fmt |-> msg], PyNone)]
Pass == [ok |-> TRUE]

\* ValidateBfs without its max_depth test
ValidateBfsNoDepth(a) ==
    IF ~IsInt(a.start_node) \/ a.start_node.i < 0
    THEN Raise("start_node must be a non-negative integer")
    ELSE Pass

ValidateBfs(a) ==
    IF ~IsInt(a.start_node) \/ a.start_node.i < 0
    THEN Raise("start_node must be a non-negative integer")
    ELSE IF ~IsInt(a.max_depth) \/ a.max_depth.i < 1
    THEN Raise("max_depth must be a positive integer")
    ELSE Pass

ValidateDijkstra(a) ==
    IF ~IsInt(a.start_node) \/ a.start_node.i < 0
    THEN Raise("start_node must be a non-negative integer")
    ELSE IF ~IsInt(a.end_node) \/ a.end_node.i < 0
    THEN Raise("end_node must be a non-negative integer")
    ELSE IF ~IsStr(a.weight_property)
    THEN Raise("weight_property must be a string")
    ELSE Pass

\* ValidatePagerank with the upper bound of damping_factor left out
ValidatePagerankNoUpper(a) ==
    IF ~IsInt(a.iterations) \/ a.iterations.i < 1
    THEN Raise("iterations must be a positive integer")
    ELSE IF ~IsFloat(a.damping_factor) \/ ~(0 <= a.damping_factor.f)
    THEN Raise("damping_factor must be between 0.0 and 1.0")
    ELSE IF ~IsFloat(a.tolerance) \/ a.tolerance.f <= 0
    THEN Raise("tolerance must be a positive float")
    ELSE Pass

ValidatePagerank(a) ==
    IF ~IsInt(a.iterations) \/ a.iterations.i < 1
    THEN Raise("iterations must be a positive integer")
    ELSE IF ~IsFloat(a.damping_factor)
            \/ ~(0 <= a.damping_factor.f /\ a.damping_factor.f <= 1000000)
    THEN Raise("damping_factor must be between 0.0 and 1.0")
    ELSE IF ~IsFloat(a.tolerance) \/ a.tolerance.f <= 0
    THEN Raise("tolerance must be a positive float")
    ELSE Pass

Validate(op, a) ==
    CASE op = "bfs" -> ValidateBfs(a)
      [] op = "dijkstra" -> ValidateDijkstra(a)
      [] op = "pagerank" -> ValidatePagerank(a)
      [] OTHER -> Pass

(***************************************************************************)
(* client.py: the request each operation builds.                           *)
(***************************************************************************)
Method(op) == IF op \in {"health", "graph_stats"} THEN "GET" ELSE "POST"

Endpoint(op) ==
    CASE op = "health" -> "/health"
      [] op = "graph_stats" -> "/graph/stats"
      [] op = "bfs" -> "/graph/algorithms/bfs"
      [] op = "dijkstra" -> "/graph/algorithms/dijkstra"
      [] op = "pagerank" -> "/graph/algorithms/pagerank"

\* data: the JSON body, None for the GET operations
Data(op, a) ==
    CASE op = "bfs" ->
           IF Truthy(a.filters)
           THEN [start_node |-> a.start_node, max_depth |-> a.max_depth,
                 filters |-> a.filters]
           ELSE [start_node |-> a.start_node, max_depth |-> a.max_depth]
      [] op = "dijkstra" ->
           [start_node |-> a.start_node, end_node |-> a.end_node,
            weight_property |-> a.weight_property]
      [] op = "pagerank" ->
           [iterations |-> a.iterations, damping_factor |-> a.damping_factor,
            tolerance |-> a.tolerance]
      [] OTHER -> PyNone

(***************************************************************************)
(* client.py: the base address.  A base address is an origin (scheme,      *)
(* host, port), a path and a number of trailing slashes; wellformed is     *)
(* whether urllib.parse accepts it ("http://[::1" is not: urlsplit raises  *)
(* ValueError, Invalid IPv6 URL).                                          *)
(***************************************************************************)
BaseUrl(origin, path, slashes, wf) ==
    [origin |-> origin, path |-> path, slashes |-> slashes, wellformed |-> wf]

\* RStrip that strips nothing
RStripNothing(b) == b

\* base_url.rstrip("/")
RStrip(b) == [b EXCEPT !.slashes = 0]

\* urljoin(self.base_url, endpoint) for an endpoint that starts with "/":
\* the endpoint replaces the path of the base
UrlJoin(b, endpoint) ==
    IF b.wellformed
    THEN [ok |-> TRUE, url |-> [origin |-> b.origin, path |-> endpoint]]
    ELSE [ok |-> FALSE,
          exc |-> LibError("ValueError", [fmt |-> "Invalid IPv6 URL"])]

\* lines 31-33: the defaults of the constructor's parameters
DefaultArgs ==
    [base_url |-> BaseUrl("http://localhost:8080", "", 0, TRUE),
     timeout |-> 30, retries |-> 3]

\* the value of parameter name in a constructor call with the keyword
\* arguments kw
Arg(kw, name) == IF name \in DOMAIN kw THEN kw[name] ELSE DefaultArgs[name]

\* the constructor calls of the model, each the keyword arguments it passes
\* for base_url, timeout and retries (no argument at all in the first)
CtorArgs ==
    { EmptyDict,
      [base_url |-> BaseUrl("http://example.com:9000", "", 0, TRUE),
       timeout |-> 60],
      [base_url |-> BaseUrl("http://example.com:9000", "", 0, TRUE),
       timeout |-> 60, retries |-> 1],
      [base_url |-> BaseUrl("http://localhost:8080", "/api", 1, TRUE),
       retries |-> 0],
      [base_url |-> BaseUrl("http://[::1", "", 0, FALSE), retries |-> 1] }

\* NewClient with the timeout argument ignored
NewClientDefaultTimeout(kw) ==
    [base_url |-> RStrip(Arg(kw, "base_url")),
     timeout |-> DefaultArgs.timeout,
     retries |-> Arg(kw, "retries")]

\* lines 46-48: the configuration the constructor stores
NewClient(kw) ==
    [base_url |-> RStrip(Arg(kw, "base_url")),
     timeout |-> Arg(kw, "timeout"),
     retries |-> Arg(kw, "retries")]

(***************************************************************************)
(* What session.request does with a dispatched request: it returns a       *)
(* response (a status and a body text) or raises.  The server and the      *)
(* network choose.                                                         *)
(***************************************************************************)
Statuses == {200, 399, 400, 404, 503}

HealthText == "{\"status\": \"healthy\", \"service\": \"nendb\"}"
ErrorText == "{\"error\": \"node not found\"}"
ListText == "[\"bfs\"]"
HtmlText == "<html>"
Texts == {HealthText, ErrorText, ListText, HtmlText}

\* json.loads of a body text
JsonLoads(text) ==
    CASE text = HealthText ->
           [ok |-> TRUE,
            value |-> [j |-> "object",
                       o |-> [status |-> "healthy", service |-> "nendb"]]]
      [] text = ErrorText ->
           [ok |-> TRUE,
            value |-> [j |-> "object", o |-> [error |-> "node not found"]]]
      [] text = ListText ->
           [ok |-> TRUE, value |-> [j |-> "array", a |-> <<"bfs">>]]
      [] OTHER -> [ok |-> FALSE]

\* the exceptions session.request raises
TransportErrors == {"ReadTimeout", "ConnectTimeout", "ConnectionError",
                    "RetryError", "TypeError"}

Responses == [kind : {"response"}, status_code : Statuses, text : Texts]
Raises == [kind : {"raises"}, cls : TransportErrors]
Outcomes == Responses \cup Raises

(***************************************************************************)
(* What one attempt of the session's adapter meets.  The adapter makes     *)
(* the attempts of one session.request call under its retry policy         *)
(* (urllib3's Retry, configured at lines 68-73).                           *)
(***************************************************************************)
\* a response that carries the header Retry-After: 1
RetryAfterResponses ==
    [kind : {"response"}, status_code : {413}, text : {ErrorText},
     retry_after : {1}]

HasRetryAfter(r) == "retry_after" \in DOMAIN r

\* the errors of one attempt: the connection cannot be made (in time), the
\* response does not arrive in time, the connection is reset
AttemptErrors == {"ConnectTimeoutError", "NewConnectionError",
                  "ReadTimeoutError", "ProtocolError"}

\* a response, an error of the attempt, or an exception of session.request
\* before any attempt (the request cannot be prepared)
AttemptOutcomes ==
    Responses \cup RetryAfterResponses
      \cup [kind : {"error"}, cls : AttemptErrors]
      \cup {[kind |-> "raises", cls |-> "TypeError"]}

\* Response.raise_for_status(): HTTPError for a 4xx or 5xx status
RaiseForStatus(r) ==
    IF 400 <= r.status_code /\ r.status_code < 600
    THEN [ok |-> FALSE,
          exc |-> LibError("HTTPError",
                           [fmt |-> "{} Error for url", status |-> r.status_code])]
    ELSE [ok |-> TRUE]

(***************************************************************************)
(* client.py: _make_request, from the value or exception of                *)
(* session.request to what the caller of _make_request gets.               *)
(***************************************************************************)
\* response.json(): the decoded body, or json.JSONDecodeError
ResponseJson(r) ==
    LET j == JsonLoads(r.text)
    IN  IF j.ok
        THEN j
        ELSE [ok |-> FALSE,
              exc |-> LibError("JSONDecodeError", [fmt |-> "Expecting value"])]

\* TryBody returning the decoded body inside an envelope
TryBodyEnvelope(out) ==
    IF out.kind = "raises"
    THEN [ret |-> FALSE, exc |-> LibError(out.cls, [fmt |-> out.cls])]
    ELSE LET st == RaiseForStatus(out)
             j == ResponseJson(out)
         IN  IF ~st.ok
             THEN [ret |-> FALSE, exc |-> st.exc]
             ELSE IF j.ok
             THEN [ret |-> TRUE,
                   value |-> [j |-> "object", o |-> [data |-> j.value]]]
             ELSE [ret |-> FALSE, exc |-> j.exc]

\* lines 106-128, the body of the try statement: what it returns, or the
\* exception that leaves it.  The inner except clause (json.JSONDecodeError)
\* raises NenDBResponseError inside the outer try.
TryBody(out) ==
    IF out.kind = "raises"
    THEN [ret |-> FALSE, exc |-> LibError(out.cls, [fmt |-> out.cls])]
    ELSE LET st == RaiseForStatus(out)
             j == ResponseJson(out)
         IN  IF ~st.ok
             THEN [ret |-> FALSE, exc |-> st.exc]
             ELSE IF j.ok
             THEN [ret |-> TRUE, value |-> j.value]
             ELSE IF IsInstance(j.exc, "JSONDecodeError")
             THEN [ret |-> FALSE,
                   exc |-> NenDBError("NenDBResponseError",
                              [fmt |-> "Invalid JSON response from server: {}",
                               cause |-> Str(j.exc)],
                              [status_code |-> out.status_code,
                               response_text |-> out.text])]
             ELSE [ret |-> FALSE, exc |-> j.exc]

\* lines 130-133
OnTimeout(endpoint, timeout) ==
    NenDBError("NenDBTimeoutError",
               [fmt |-> "Request to {} timed out after {} seconds",
                endpoint |-> endpoint, timeout |-> timeout],
               PyNone)

\* lines 134-135
OnConnectionError(endpoint, e) ==
    NenDBError("NenDBConnectionError",
               [fmt |-> "Connection failed to {}: {}",
                endpoint |-> endpoint, cause |-> Str(e)],
               PyNone)

\* OnHTTPError that never decodes the error body
OnHTTPErrorGeneric(endpoint, e, response) ==
    NenDBError("NenDBResponseError",
               [fmt |-> "HTTP error on {}: {}",
                endpoint |-> endpoint, error_msg |-> Str(e)],
               [status_code |-> response.status_code])

\* OnHTTPError whose fallback leaves the details empty
OnHTTPErrorNoStatus(endpoint, e, response) ==
    LET j == ResponseJson(response)
        inner == j.ok /\ j.value.j = "object"
        error_msg == IF inner /\ "error" \in DOMAIN j.value.o
                     THEN [s |-> j.value.o.error]
                     ELSE Str(e)
        details == IF inner
                   THEN [status_code |-> response.status_code,
                         response |-> j.value]
                   ELSE EmptyDict
    IN  NenDBError("NenDBResponseError",
                   [fmt |-> "HTTP error on {}: {}",
                    endpoint |-> endpoint, error_msg |-> error_msg],
                   details)

\* lines 136-151: the error body is decoded for a message and the details;
\* if it does not decode, or is no mapping (error_data.get raises), the
\* message is str(e) and the details hold the status code alone
OnHTTPError(endpoint, e, response) ==
    LET j == ResponseJson(response)
        inner == j.ok /\ j.value.j = "object"
        error_msg == IF inner /\ "error" \in DOMAIN j.value.o
                     THEN [s |-> j.value.o.error]
                     ELSE Str(e)
        details == IF inner
                   THEN [status_code |-> response.status_code,
                         response |-> j.value]
                   ELSE [status_code |-> response.status_code]
    IN  NenDBError("NenDBResponseError",
                   [fmt |-> "HTTP error on {}: {}",
                    endpoint |-> endpoint, error_msg |-> error_msg],
                   details)

\* lines 152-153
OnException(endpoint, e) ==
    NenDBError("NenDBError",
               [fmt |-> "Unexpected error on {}: {}",
                endpoint |-> endpoint, cause |-> Str(e)],
               PyNone)

\* Handlers with the ConnectionError clause before the Timeout clause
HandlersConnectionFirst(e, out, endpoint, timeout) ==
    IF IsInstance(e, "ConnectionError") THEN OnConnectionError(endpoint, e)
    ELSE IF IsInstance(e, "Timeout") THEN OnTimeout(endpoint, timeout)
    ELSE IF IsInstance(e, "HTTPError") THEN OnHTTPError(endpoint, e, out)
    ELSE IF IsInstance(e, "Exception") THEN OnException(endpoint, e)
    ELSE e

\* Handlers without the ConnectionError clause
HandlersNoConnection(e, out, endpoint, timeout) ==
    IF IsInstance(e, "Timeout") THEN OnTimeout(endpoint, timeout)
    ELSE IF IsInstance(e, "HTTPError") THEN OnHTTPError(endpoint, e, out)
    ELSE IF IsInstance(e, "Exception") THEN OnException(endpoint, e)
    ELSE e

\* lines 130-153, the except clauses of the outer try in their order: the
\* exception the caller gets for the exception e that left the try body
Handlers(e, out, endpoint, timeout) ==
    IF IsInstance(e, "Timeout") THEN OnTimeout(endpoint, timeout)
    ELSE IF IsInstance(e, "ConnectionError") THEN OnConnectionError(endpoint, e)
    ELSE IF IsInstance(e, "HTTPError") THEN OnHTTPError(endpoint, e, out)
    ELSE IF IsInstance(e, "Exception") THEN OnException(endpoint, e)
    ELSE e

\* lines 106-153: the outcome of _make_request given what session.request did
MakeRequest(out, endpoint, timeout) ==
    LET b == TryBody(out)
    IN  IF b.ret
        THEN b
        ELSE [ret |-> FALSE, exc |-> Handlers(b.exc, out, endpoint, timeout)]

(***************************************************************************)
(* The state.                                                              *)
(*   phase     "new" before the constructor runs, "probing" while its      *)
(*             health probe is in flight, "ready" once it has returned a   *)
(*             client, "failed" once it has raised                         *)
(*   ctor      the constructor call: its keyword arguments, whether a      *)
(*             session was passed, skip_validation, and the requests it    *)
(*             dispatched                                                  *)
(*   client    base_url, timeout, retries of the instance                  *)
(*   session   the session the client is bound to: who created it, the     *)
(*             retry policy mounted on it, how often close() was called    *)
(*   scope     "in" while a with-block on the client is open, "propagated" *)
(*             after a block left by an exception that went on to the      *)
(*             caller ("swallowed" if it did not), "out" otherwise         *)
(*   calls     per calling thread, the operation call it is in             *)
(*   ctorError the exception the constructor raised                        *)
(*   made      an error record created directly (SpecError)                *)
(***************************************************************************)
Threads == {"t1", "t2"}
\* the thread that constructs the client; under Spec it is also the one
\* that calls the operations, one call at a time
Main == "t1"

Idle == [pc |-> "idle"]
NoCtor == [none |-> TRUE]
NoClient == [none |-> TRUE]
NoSession == [none |-> TRUE]
NoError == [none |-> TRUE]
NoRetry == [none |-> TRUE]

\* CreateSession whose policy allows one retry more than asked for
CreateSessionOneMore(retries) ==
    [owner |-> "client",
     retry |-> [total |-> retries + 1,
                status_forcelist |-> {429, 500, 502, 503, 504},
                allowed_methods |-> {"HEAD", "GET", "OPTIONS", "POST"},
                backoff_factor |-> 1],
     closeCalls |-> 0]

\* lines 63-80, _create_session: a new session with the retry policy mounted
CreateSession(retries) ==
    [owner |-> "client",
     retry |-> [total |-> retries,
                status_forcelist |-> {429, 500, 502, 503, 504},
                allowed_methods |-> {"HEAD", "GET", "OPTIONS", "POST"},
                backoff_factor |-> 1],
     closeCalls |-> 0]

\* a session the caller built and passes to the constructor
GivenSession == [owner |-> "caller", retry |-> NoRetry, closeCalls |-> 0]

\* BindSession mounting the client's retry policy on a session passed in
BindSessionMounting(given, retries) ==
    IF given
    THEN [CreateSession(retries) EXCEPT !.owner = "caller"]
    ELSE CreateSession(retries)

\* line 51: session or self._create_session()
BindSession(given, retries) ==
    IF given THEN GivenSession ELSE CreateSession(retries)

(***************************************************************************)
(* The attempts of one session.request call.  A session the client did not *)
(* create has the adapter of a plain requests.Session: no retry, no status *)
(* list, read errors raised at once.                                       *)
(***************************************************************************)
DefaultRetry ==
    [total |-> 0, status_forcelist |-> {},
     allowed_methods |-> {"DELETE", "GET", "HEAD", "OPTIONS", "PUT", "TRACE"},
     backoff_factor |-> 0, read |-> FALSE]

PolicyOf(s) == IF s.retry = NoRetry THEN DefaultRetry ELSE s.retry

ReadRetried(p) == "read" \notin DOMAIN p \/ p.read

MethodRetryable(p, method) == method \in p.allowed_methods

\* Retry.is_retry for the policy of lines 68-73: the method is allowed and
\* the status is in status_forcelist, or retries are left and the response
\* carries Retry-After with status 413, 429 or 503
IsRetry(p, left, method, r) ==
    /\ MethodRetryable(p, method)
    /\ \/ r.status_code \in p.status_forcelist
       \/ left # 0 /\ HasRetryAfter(r) /\ r.status_code \in {413, 429, 503}

\* BackoffTime that waits after the first failure too
BackoffTimeFromFirst(p, k) == p.backoff_factor * 2^(k - 1)

\* Retry.get_backoff_time after the k-th failure in a row: nothing after
\* the first, then backoff_factor * 2^(k-1), at most 120 seconds
BackoffTime(p, k) ==
    IF k <= 1
    THEN 0
    ELSE IF p.backoff_factor * 2^(k - 1) > 120
    THEN 120
    ELSE p.backoff_factor * 2^(k - 1)

\* Retry.sleep: the delay in seconds before the next attempt, the time of
\* Retry-After if the response carries it, the backoff time otherwise
Sleep(p, k, ao) ==
    IF ao.kind = "response" /\ HasRetryAfter(ao)
    THEN ao.retry_after
    ELSE BackoffTime(p, k)

\* The k-th attempt of a request met ao with `left` retries left: the
\* adapter tries again after a sleep, or session.request returns or raises.
\* With the retries used up a retryable status raises RetryError and an
\* error raises ConnectTimeout or ConnectionError.
Attempt(p, left, k, method, ao) ==
    LET again == [retry |-> TRUE, sleep |-> Sleep(p, k, ao)]
        raises(cls) ==
            [retry |-> FALSE, out |-> [kind |-> "raises", cls |-> cls]]
    IN  CASE ao.kind = "raises" -> [retry |-> FALSE, out |-> ao]
          [] ao.kind = "response" ->
               IF ~IsRetry(p, left, method, ao)
               THEN [retry |-> FALSE, out |-> ao]
               ELSE IF left = 0 THEN raises("RetryError") ELSE again
          [] ao.kind = "error"
               /\ ao.cls \in {"ConnectTimeoutError", "NewConnectionError"} ->
               IF left > 0
               THEN again
               ELSE IF ao.cls = "ConnectTimeoutError"
               THEN raises("ConnectTimeout")
               ELSE raises("ConnectionError")
          [] OTHER ->
               IF ~ReadRetried(p) \/ ~MethodRetryable(p, method)
               THEN IF ao.cls = "ReadTimeoutError"
                    THEN raises("ReadTimeout")
                    ELSE raises("ConnectionError")
               ELSE IF left > 0 THEN again ELSE raises("ConnectionError")

\* what the history of a request keeps of a failed attempt: the status, 0
\* for an error
HistoryEntry(ao) == IF ao.kind = "response" THEN ao.status_code ELSE 0

\* the attempts made so far for the request of call c
Attempts(c) == Len(c.history) + 1

\* StartCall that dispatches without validating
StartCallNoValidation(c, op, kw, by) ==
    LET a == Bind(op, kw)
        u == UrlJoin(c.base_url, Endpoint(op))
        base == [op |-> op, kw |-> kw, args |-> a, by |-> by]
    IN  IF ~u.ok
        THEN base @@ [pc |-> "Failed", sent |-> 0, err |-> u.exc]
        ELSE base @@ [pc |-> "Dispatching", sent |-> 1,
                      history |-> <<>>, slept |-> <<>>,
                      req |-> [method |-> Method(op), url |-> u.url,
                               json |-> Data(op, a), params |-> PyNone,
                               timeout |-> c.timeout]]

\* an operation method up to its call of session.request: the parameters
\* are bound, validated, then urljoin (line 104, outside the try statement),
\* then the dispatch
StartCall(c, op, kw, by) ==
    LET a == Bind(op, kw)
        v == Validate(op, a)
        u == UrlJoin(c.base_url, Endpoint(op))
        base == [op |-> op, kw |-> kw, args |-> a, by |-> by]
    IN  IF ~v.ok
        THEN base @@ [pc |-> "Failed", sent |-> 0, err |-> v.exc]
        ELSE IF ~u.ok
        THEN base @@ [pc |-> "Failed", sent |-> 0, err |-> u.exc]
        ELSE base @@ [pc |-> "Dispatching", sent |-> 1,
                      history |-> <<>>, slept |-> <<>>,
                      req |-> [method |-> Method(op), url |-> u.url,
                               json |-> Data(op, a), params |-> PyNone,
                               timeout |-> c.timeout]]

\* the call once session.request has returned or raised
EndCall(c, call, out) ==
    LET r == MakeRequest(out, Endpoint(call.op), c.timeout)
        base == [op |-> call.op, kw |-> call.kw, args |-> call.args,
                 by |-> call.by, sent |-> call.sent, req |-> call.req,
                 history |-> call.history, slept |-> call.slept, raw |-> out]
    IN  IF r.ret
        THEN base @@ [pc |-> "Succeeded", result |-> r.value]
        ELSE base @@ [pc |-> "Failed", err |-> r.exc]

\* ProbeFailed raising the exception of the probe as it is
ProbeFailedReraise(c, e) == e

\* lines 57-61: the constructor wraps any exception of its health probe
ProbeFailed(c, e) ==
    NenDBError("NenDBConnectionError",
               [fmt |-> "Failed to connect to NenDB server at {}: {}",
                base_url |-> c.base_url, cause |-> Str(e)],
               PyNone)

\* ProbeFailureSession closing the session before the constructor raises
ProbeFailureSessionClosed(s) ==
    IF s.owner = "client" THEN [s EXCEPT !.closeCalls = @ + 1] ELSE s

\* lines 57-61: the except clause of the constructor raises and does nothing
\* else; the session bound at line 51 stays as it is
ProbeFailureSession(s) == s

\* Probes probing whatever the flag says
ProbesAlways(skip) == TRUE

\* line 54: if not skip_validation
Probes(skip) == ~skip

Init ==
    /\ phase = "new"
    /\ ctor = NoCtor
    /\ client = NoClient
    /\ session = NoSession
    /\ scope = "out"
    /\ calls = [t \in Threads |-> Idle]
    /\ ctorError = NoError
    /\ made = NoError

\* lines 29-61, NenDBClient.__init__ up to the dispatch of its probe
Construct(a, given, skip) ==
    LET c == NewClient(a)
        probe == StartCall(c, "health", NoArgs, "ctor") @@ [closes |-> 0]
        base == [kw |-> a, given |-> given, skip |-> skip]
    IN  /\ phase = "new"
        /\ client' = c
        /\ session' = IF Probes(skip) /\ probe.pc = "Failed"
                       THEN ProbeFailureSession(BindSession(given, c.retries))
                       ELSE BindSession(given, c.retries)
        /\ IF ~Probes(skip)
           THEN /\ phase' = "ready"
                /\ ctor' = base @@ [dispatched |-> <<>>]
                /\ UNCHANGED <<calls, ctorError>>
           ELSE /\ calls' = [calls EXCEPT ![Main] = probe]
                /\ IF probe.pc = "Failed"
                   THEN /\ phase' = "failed"
                        /\ ctor' = base @@ [dispatched |-> <<>>]
                        /\ ctorError' = ProbeFailed(c, probe.err)
                   ELSE /\ phase' = "probing"
                        /\ ctor' = base @@ [dispatched |-> <<probe.req>>]
                        /\ UNCHANGED ctorError
        /\ UNCHANGED <<scope, made>>

\* Invoke under a lock of the client: a call starts only when no other call
\* is in flight
InvokeSerialized(t, op, a) ==
    /\ phase = "ready"
    /\ \A u \in Threads : calls[u].pc # "Dispatching"
    /\ calls[t].pc = "idle"
    /\ calls' = [calls EXCEPT ![t] = StartCall(client, op, a, "caller")
                                       @@ [closes |-> session.closeCalls]]
    /\ UNCHANGED <<phase, ctor, client, session, scope, ctorError, made>>

\* Invoke on a client that rejects calls once it was closed
InvokeClosedRejected(t, op, a) ==
    /\ phase = "ready"
    /\ calls[t].pc = "idle"
    /\ calls' = [calls EXCEPT ![t] =
                   IF session.closeCalls > 0
                   THEN [op |-> op, kw |-> a, args |-> Bind(op, a),
                         by |-> "caller", pc |-> "Failed", sent |-> 0,
                         err |-> NenDBError("NenDBError",
                                            [fmt |-> "client is closed"],
                                            PyNone),
                         closes |-> session.closeCalls]
                   ELSE StartCall(client, op, a, "caller")
                          @@ [closes |-> session.closeCalls]]
    /\ UNCHANGED <<phase, ctor, client, session, scope, ctorError, made>>

\* health, graph_stats, bfs, dijkstra, pagerank: the call up to its dispatch
\* (closes: how often session.close() had been called when the call began)
Invoke(t, op, a) ==
    /\ phase = "ready"
    /\ calls[t].pc = "idle"
    /\ calls' = [calls EXCEPT ![t] = StartCall(client, op, a, "caller")
                                       @@ [closes |-> session.closeCalls]]
    /\ UNCHANGED <<phase, ctor, client, session, scope, ctorError, made>>

\* One attempt of the dispatched request meets ao.  Either the adapter
\* sleeps and tries again, or session.request returns or raises and
\* _make_request interprets it.
Respond(t, ao) ==
    LET call == calls[t]
        p == PolicyOf(session)
        step == Attempt(p, p.total - Len(call.history), Attempts(call),
                        call.req.method, ao)
        \* last: what the last attempt met
        done == EndCall(client, call, step.out)
                  @@ [last |-> ao, closes |-> call.closes]
    IN  /\ call.pc = "Dispatching"
        /\ ao.kind = "raises" => call.history = <<>>
        /\ IF step.retry
           THEN /\ calls' = [calls EXCEPT
                               ![t].history = Append(@, HistoryEntry(ao)),
                               ![t].slept = Append(@, step.sleep)]
                /\ UNCHANGED <<phase, session, ctorError>>
           ELSE /\ calls' = [calls EXCEPT ![t] = done]
                /\ IF call.by = "ctor"
                   THEN IF done.pc = "Succeeded"
                        THEN /\ phase' = "ready"
                             /\ UNCHANGED <<session, ctorError>>
                        ELSE /\ phase' = "failed"
                             /\ session' = ProbeFailureSession(session)
                             /\ ctorError' = ProbeFailed(client, done.err)
                   ELSE UNCHANGED <<phase, session, ctorError>>
        /\ UNCHANGED <<ctor, client, scope, made>>

\* the caller has taken the result or the exception of its call
Return(t) ==
    /\ phase = "ready"
    /\ calls[t].pc \in {"Succeeded", "Failed"}
    /\ calls' = [calls EXCEPT ![t] = Idle]
    /\ UNCHANGED <<phase, ctor, client, session, scope, ctorError, made>>

\* CloseSession dropping the session (self.session = None)
CloseSessionClears(s) == NoSession

\* CloseSession that closes only a session the client created
CloseSessionOwnOnly(s) ==
    IF s # NoSession /\ s.owner = "client"
    THEN [s EXCEPT !.closeCalls = @ + 1]
    ELSE s

\* lines 296-299, NenDBClient.close: a session object is truthy
CloseSession(s) ==
    IF s # NoSession
    THEN [s EXCEPT !.closeCalls = @ + 1]
    ELSE s

Close ==
    /\ phase = "ready"
    /\ session.closeCalls < MaxClose
    /\ session' = CloseSession(session)
    /\ UNCHANGED <<phase, ctor, client, scope, calls, ctorError, made>>

\* lines 301-303, __enter__
Enter ==
    /\ phase = "ready"
    /\ scope # "in"
    /\ scope' = "in"
    /\ UNCHANGED <<phase, ctor, client, session, calls, ctorError, made>>

\* ExitValue True: __exit__ suppressing the exception
ExitValueTrue == PyBool(TRUE)

\* lines 305-307: __exit__ has no return statement, it returns None
ExitValue == PyNone

\* lines 305-307, __exit__ at the end of a with-block that raised or did
\* not: close(); the exception goes on unless __exit__ returns a true value
Exit(raised) ==
    /\ phase = "ready"
    /\ scope = "in"
    /\ session.closeCalls < MaxClose
    /\ scope' = IF ~raised THEN "out"
                ELSE IF Truthy(ExitValue) THEN "swallowed"
                ELSE "propagated"
    /\ session' = CloseSession(session)
    /\ UNCHANGED <<phase, ctor, client, calls, ctorError, made>>

\* the constructor calls of Spec (keyword arguments, session passed or not,
\* skip_validation): those whose session retries at most MaxRetries times
CtorCalls ==
    {k \in [kw : CtorArgs, given : BOOLEAN, skip : BOOLEAN] :
        k.given \/ NewClient(k.kw).retries <= MaxRetries}

Next ==
    \/ \E k \in CtorCalls : Construct(k.kw, k.given, k.skip)
    \/ \E op \in Ops : \E a \in ArgsOf(op) : Invoke(Main, op, a)
    \/ \E ao \in AttemptOutcomes : Respond(Main, ao)
    \/ Return(Main)
    \/ Close
    \/ Enter
    \/ \E raised \in BOOLEAN : Exit(raised)

Spec == Init /\ [][Next]_vars

(***************************************************************************)
(* SpecRetry: the retry policy at work.  Clients with the default retry    *)
(* count 3 (no argument, and the explicit base URL and timeout of the      *)
(* test), one GET and one POST operation.                                  *)
(***************************************************************************)
RetryCtorCalls ==
    {k \in [kw : CtorArgs, given : BOOLEAN, skip : BOOLEAN] :
        "retries" \notin DOMAIN k.kw}

RetryOps == {"health", "bfs"}

RetryArgsOf(op) ==
    IF op = "bfs"
    THEN {[start_node |-> PyInt(0), max_depth |-> Omitted,
           filters |-> PyNone]}
    ELSE {NoArgs}

NextRetry ==
    \/ \E k \in RetryCtorCalls : Construct(k.kw, k.given, k.skip)
    \/ \E op \in RetryOps : \E a \in RetryArgsOf(op) : Invoke(Main, op, a)
    \/ \E ao \in AttemptOutcomes : Respond(Main, ao)
    \/ Return(Main)

SpecRetry == Init /\ [][NextRetry]_vars

\* session.request blocks its caller and every attempt ends, with a
\* response or an error, at the latest when the timeout of line 112 passes:
\* an attempt that is under way is eventually answered
SpecRetryFair ==
    SpecRetry /\ WF_vars(\E ao \in AttemptOutcomes : Respond(Main, ao))

(***************************************************************************)
(* SpecConcurrent: the threads of the caller call operations of one client *)
(* at the same time.  Each thread runs its own activation of the operation *)
(* method; the client has no lock.  The client creates its session with    *)
(* retries 1 and does not probe.                                           *)
(***************************************************************************)
ConcurrentCtorCalls ==
    {k \in [kw : CtorArgs, given : {FALSE}, skip : {TRUE}] :
        /\ "timeout" \in DOMAIN k.kw
        /\ NewClient(k.kw).retries = MaxRetries}

NextConcurrent ==
    \/ \E k \in ConcurrentCtorCalls : Construct(k.kw, k.given, k.skip)
    \/ \E t \in Threads, op \in RetryOps :
          \E a \in RetryArgsOf(op) : Invoke(t, op, a)
    \/ \E t \in Threads, ao \in AttemptOutcomes : Respond(t, ao)
    \/ \E t \in Threads : Return(t)

SpecConcurrent == Init /\ [][NextConcurrent]_vars

(***************************************************************************)
(* SpecError: error records created directly, as the tests of              *)
(* TestNenDBError do: a class of the taxonomy, a message, and details      *)
(* (None when the argument is left out).                                   *)
(***************************************************************************)
ErrorMessages ==
    {[fmt |-> "Test error message"], [fmt |-> "Connection failed"],
     [fmt |-> "Request timeout after {}s"], [fmt |-> ""]}

ErrorDetails ==
    {PyNone, EmptyDict, [status_code |-> 500],
     [status_code |-> 404, response_text |-> HtmlText],
     [status_code |-> 400, response |-> JsonLoads(ErrorText).value]}

\* cls(message, details) and str() of the new error
CreateError(cls, message, details) ==
    /\ made' = [given |-> [message |-> message, details |-> details],
                err |-> NenDBError(cls, message, details),
                text |-> Str(NenDBError(cls, message, details))]
    /\ UNCHANGED <<phase, ctor, client, session, scope, calls, ctorError>>

NextError ==
    \E cls \in NenDBClasses, message \in ErrorMessages,
       details \in ErrorDetails : CreateError(cls, message, details)

SpecError == Init /\ [][NextError]_vars

(***************************************************************************)
(* Properties.                                                             *)
(***************************************************************************)
\* a call that was made and has not been taken back by its caller
Made(c) == c.pc # "idle"
\* a call whose session.request has returned or raised
Answered(c) == c.pc \in {"Succeeded", "Failed"} /\ "raw" \in DOMAIN c
\* the numeric argument x is below n (floats hold millionths)
Below(x, n) ==
    \/ x.t \in {"int", "bool"} /\ x.i < n
    \/ x.t = "float" /\ x.f < n * 1000000
\* the numeric argument x is above n
Above(x, n) ==
    \/ x.t \in {"int", "bool"} /\ x.i > n
    \/ x.t = "float" /\ x.f > n * 1000000
\* the call failed validation and never reached session.request
Rejected(c) ==
    /\ c.pc = "Failed"
    /\ c.err.cls = "NenDBValidationError"
    /\ c.sent = 0

\* C1: a bfs call with start_node < 0 or max_depth < 1, and a dijkstra call
\* with start_node < 0 or end_node < 0, fails with NenDBValidationError and
\* session.request is invoked zero times during the call.
C1_InvalidTraversalRejected ==
    \A t \in Threads :
       LET c == calls[t]
       IN  /\ (Made(c) /\ c.op = "bfs"
                 /\ (Below(c.args.start_node, 0) \/ Below(c.args.max_depth, 1)))
              => Rejected(c)
           /\ (Made(c) /\ c.op = "dijkstra"
                 /\ (Below(c.args.start_node, 0) \/ Below(c.args.end_node, 0)))
              => Rejected(c)

\* C1 witness: a bfs call with a valid start_node and max_depth 0 was
\* rejected without a request
C1_Witness ==
    \E t \in Threads :
       /\ Made(calls[t]) /\ calls[t].op = "bfs"
       /\ calls[t].args.start_node = PyInt(0)
       /\ calls[t].args.max_depth = PyInt(0)
       /\ Rejected(calls[t])

\* C2: a pagerank call with iterations < 1, damping_factor outside
\* [0.0, 1.0] or tolerance <= 0.0 fails with NenDBValidationError and no
\* request is dispatched.
C2_InvalidRankingRejected ==
    \A t \in Threads :
       LET c == calls[t]
       IN  (Made(c) /\ c.op = "pagerank"
              /\ (\/ Below(c.args.iterations, 1)
                  \/ Below(c.args.damping_factor, 0)
                  \/ Above(c.args.damping_factor, 1)
                  \/ (IsInt(c.args.tolerance) \/ IsFloat(c.args.tolerance))
                       /\ ~Above(c.args.tolerance, 0)))
           => Rejected(c)

\* C2 witness: pagerank(iterations=1, damping_factor=1.5, tolerance=1e-6)
\* was rejected without a request
C2_Witness ==
    \E t \in Threads :
       /\ Made(calls[t]) /\ calls[t].op = "pagerank"
       /\ calls[t].args = [iterations |-> PyInt(1),
                           damping_factor |-> PyFloat(1500000),
                           tolerance |-> PyFloat(1)]
       /\ Rejected(calls[t])

\* C3: a dijkstra call whose weight_property is not a non-empty string (the
\* empty string in particular) fails with NenDBValidationError before any
\* request is sent.
C3_EmptyWeightRejected ==
    \A t \in Threads :
       LET c == calls[t]
       IN  (Made(c) /\ c.op = "dijkstra"
              /\ (~IsStr(c.args.weight_property)
                    \/ c.args.weight_property.s = ""))
           => Rejected(c)

\* C4: when the request of an operation completes with a status below 400
\* and a body that decodes as JSON, the call returns exactly the decoded
\* body.
C4_SuccessReturnsBody ==
    \A t \in Threads :
       LET c == calls[t]
       IN  (Answered(c) /\ c.raw.kind = "response"
              /\ c.raw.status_code < 400 /\ JsonLoads(c.raw.text).ok)
           => /\ c.pc = "Succeeded"
              /\ c.result = JsonLoads(c.raw.text).value

\* C4 witness: a caller's bfs call answered 399 with the health mapping
\* returned that mapping
C4_Witness ==
    \E t \in Threads :
       /\ Answered(calls[t]) /\ calls[t].op = "bfs" /\ calls[t].by = "caller"
       /\ calls[t].raw = [kind |-> "response", status_code |-> 399,
                          text |-> HealthText]
       /\ calls[t].pc = "Succeeded"
       /\ calls[t].result.o.service = "nendb"

\* C5: when session.request delivers a response with a status of 400 or
\* more, the call fails with NenDBResponseError and the details hold
\* status_code, equal to that status.
C5_ErrorStatusIsResponseError ==
    \A t \in Threads :
       LET c == calls[t]
       IN  (Answered(c) /\ c.raw.kind = "response" /\ c.raw.status_code >= 400)
           => /\ c.pc = "Failed"
              /\ c.err.cls = "NenDBResponseError"
              /\ "status_code" \in DOMAIN c.err.details
              /\ c.err.details.status_code = c.raw.status_code

\* C5 witness: a graph_stats call answered 404 with an undecodable body
\* failed with NenDBResponseError, status_code 404
C5_Witness ==
    \E t \in Threads :
       /\ Answered(calls[t]) /\ calls[t].op = "graph_stats"
       /\ calls[t].raw = [kind |-> "response", status_code |-> 404,
                          text |-> HtmlText]
       /\ calls[t].err.cls = "NenDBResponseError"
       /\ calls[t].err.details = [status_code |-> 404]

\* C6: when the status is below 400 and the body does not decode as JSON,
\* the call fails with NenDBResponseError whose details hold the status
\* code and the raw response text.
C6_BadJsonIsResponseError ==
    \A t \in Threads :
       LET c == calls[t]
       IN  (Answered(c) /\ c.raw.kind = "response"
              /\ c.raw.status_code < 400 /\ ~JsonLoads(c.raw.text).ok)
           => /\ c.pc = "Failed"
              /\ c.err.cls = "NenDBResponseError"
              /\ c.err.details = [status_code |-> c.raw.status_code,
                                  response_text |-> c.raw.text]

\* C7: a timeout raised by session.request, a connect timeout included,
\* reaches the caller as NenDBTimeoutError, never as NenDBConnectionError.
C7_TimeoutIsTimeoutError ==
    \A t \in Threads :
       LET c == calls[t]
       IN  (Answered(c) /\ c.raw.kind = "raises"
              /\ c.raw.cls \in {"ReadTimeout", "ConnectTimeout"})
           => /\ c.pc = "Failed"
              /\ c.err.cls = "NenDBTimeoutError"

\* C7 witness: a caller's health call whose request raised ConnectTimeout
\* failed with NenDBTimeoutError
C7_Witness ==
    \E t \in Threads :
       /\ Answered(calls[t]) /\ calls[t].op = "health"
       /\ calls[t].by = "caller"
       /\ calls[t].raw = [kind |-> "raises", cls |-> "ConnectTimeout"]
       /\ calls[t].err.cls = "NenDBTimeoutError"

\* C8: a connection error of session.request that is no timeout reaches the
\* caller as NenDBConnectionError.
C8_ConnectionErrorIsConnectionError ==
    \A t \in Threads :
       LET c == calls[t]
       IN  (Answered(c) /\ c.raw.kind = "raises"
              /\ c.raw.cls = "ConnectionError")
           => /\ c.pc = "Failed"
              /\ c.err.cls = "NenDBConnectionError"

\* C8 witness: a caller's dijkstra call whose request raised
\* ConnectionError failed with NenDBConnectionError
C8_Witness ==
    \E t \in Threads :
       /\ Answered(calls[t]) /\ calls[t].op = "dijkstra"
       /\ calls[t].by = "caller"
       /\ calls[t].raw = [kind |-> "raises", cls |-> "ConnectionError"]
       /\ calls[t].err.cls = "NenDBConnectionError"

\* C9: a caller's operation call ends either with a result or with an error
\* of the taxonomy (NenDBError or a subclass) that carries a message and a
\* details mapping; no exception of another library reaches the caller, and
\* a call returns a result only for a decodable response below status 400.
C9_OnlyTypedErrors ==
    \A t \in Threads :
       LET c == calls[t]
       IN  /\ (c.pc = "Failed" /\ c.by = "caller")
              => /\ c.err.cls \in NenDBClasses
                 /\ {"message", "details"} \subseteq DOMAIN c.err
           /\ (c.pc = "Succeeded" /\ c.by = "caller")
              => /\ c.raw.kind = "response"
                 /\ c.raw.status_code < 400
                 /\ JsonLoads(c.raw.text).ok

\* C10: over any sequence of close() calls and with-block exits the session
\* is closed exactly once: no later close calls session.close() again.
C10_ReleasedOnce ==
    session # NoSession => session.closeCalls <= 1


\* C11: a with-block on the client calls session.close() when it is left,
\* whether its body completed or raised, and an exception raised in the body
\* goes on to the caller after the release (the block ends "out" or
\* "propagated", never "swallowed").
C11_ScopeReleases ==
    [][(scope = "in" /\ scope' # "in")
         => /\ session'.closeCalls = session.closeCalls + 1
            /\ scope' \in {"out", "propagated"}]_vars

\* C11 witness: a block left by an exception; the session was closed and the
\* exception went on
C11_Witness == scope = "propagated" /\ session.closeCalls >= 1

\* C12: a constructor that probes (skip_validation false) and whose health
\* probe fails, whatever the failure, raises NenDBConnectionError and
\* returns no client.
C12_ProbeFailureIsConnectionError ==
    (ctor # NoCtor /\ ~ctor.skip
       /\ calls[Main].pc = "Failed" /\ calls[Main].by = "ctor")
    => /\ phase = "failed"
       /\ ctorError # NoError
       /\ ctorError.cls = "NenDBConnectionError"

\* C12 witness: the probe was answered with an error status, which
\* _make_request raised as NenDBResponseError; the constructor raised
\* NenDBConnectionError
C12_Witness ==
    /\ phase = "failed"
    /\ ~ctor.skip
    /\ calls[Main].by = "ctor"
    /\ calls[Main].err.cls = "NenDBResponseError"
    /\ ctorError.cls = "NenDBConnectionError"

\* C13: a constructor called with skip_validation true dispatches no
\* request; one that probes dispatches at most one request, and exactly one,
\* GET <base>/health, when it returns a client.
C13_OneProbeRequest ==
    ctor # NoCtor
    => /\ ctor.skip => ctor.dispatched = <<>>
       /\ Len(ctor.dispatched) <= 1
       /\ \A i \in DOMAIN ctor.dispatched :
             /\ ctor.dispatched[i].method = "GET"
             /\ ctor.dispatched[i].url.path = "/health"
             /\ ctor.dispatched[i].json = PyNone
       /\ (~ctor.skip /\ phase = "ready") => Len(ctor.dispatched) = 1

\* C13 witness: a constructor that probed has returned a client
C13_Witness ==
    /\ phase = "ready"
    /\ ~ctor.skip
    /\ Len(ctor.dispatched) = 1
    /\ ctor.dispatched[1].method = "GET"

\* C14: on a client with the default retry count 3 and its own session, a
\* POST call whose request was answered 503 three times and then 200 with a
\* JSON body has succeeded with that body, after exactly 3 retries and their
\* 3 backoff delays (of 0, 2 and 4 seconds under backoff_factor 1).
C14_RetriedPostSucceeds ==
    \A t \in Threads :
       LET c == calls[t]
       IN  (/\ Answered(c) /\ c.req.method = "POST"
            /\ session.owner = "client" /\ client.retries = 3
            /\ c.history = <<503, 503, 503>>
            /\ c.raw.kind = "response" /\ c.raw.status_code = 200
            /\ JsonLoads(c.raw.text).ok)
           => /\ c.pc = "Succeeded"
              /\ c.result = JsonLoads(c.raw.text).value
              /\ Attempts(c) = 1 + client.retries
              /\ Len(c.slept) = client.retries
              /\ c.slept = <<0, 2, 4>>

\* C14 witness: a bfs call answered 503, 503, 503, 200 has succeeded
C14_Witness ==
    \E t \in Threads :
       /\ Answered(calls[t]) /\ calls[t].op = "bfs"
       /\ session.owner = "client" /\ client.retries = 3
       /\ calls[t].history = <<503, 503, 503>>
       /\ calls[t].raw.kind = "response" /\ calls[t].raw.status_code = 200
       /\ calls[t].pc = "Succeeded"

\* C15: an attempt that was answered with a status is followed by another
\* attempt only if the method is HEAD, GET, OPTIONS or POST and the status
\* is 429, 500, 502, 503 or 504; a 400 is never followed by a retry.
C15_RetriedOnlyListed ==
    \A t \in Threads :
       LET c == calls[t]
       IN  "history" \in DOMAIN c
           => \A i \in DOMAIN c.history :
                 c.history[i] # 0
                 => /\ c.req.method \in {"HEAD", "GET", "OPTIONS", "POST"}
                    /\ c.history[i] \in {429, 500, 502, 503, 504}

\* C16: when every attempt of a request on the client's own session is
\* answered with a status of the retry list until the retries are used up,
\* the call fails with NenDBResponseError whose details hold that status.
C16_ExhaustedIsResponseError ==
    \A t \in Threads :
       LET c == calls[t]
       IN  (/\ Answered(c) /\ c.by = "caller" /\ session.owner = "client"
            /\ Len(c.history) = client.retries
            /\ c.last.kind = "response"
            /\ c.last.status_code \in session.retry.status_forcelist
            /\ \A i \in DOMAIN c.history : c.history[i] = c.last.status_code)
           => /\ c.pc = "Failed"
              /\ c.err.cls = "NenDBResponseError"
              /\ "status_code" \in DOMAIN c.err.details
              /\ c.err.details.status_code = c.last.status_code

\* C17: a client constructed with base_url "http://example.com:9000" and
\* timeout 60 holds exactly these values; a client constructed with no
\* argument holds "http://localhost:8080", 30 and retries 3.
C17_ConfigurationAsGiven ==
    ctor # NoCtor
    => /\ ctor.kw = EmptyDict
          => client = [base_url |-> BaseUrl("http://localhost:8080", "", 0,
                                            TRUE),
                       timeout |-> 30, retries |-> 3]
       /\ ctor.kw = [base_url |-> BaseUrl("http://example.com:9000", "", 0,
                                          TRUE),
                     timeout |-> 60]
          => /\ client.base_url = ctor.kw.base_url
             /\ client.timeout = 60

\* C17 witness: the constructor called with the explicit base_url and
\* timeout has returned a client with timeout 60
C17_Witness ==
    /\ phase = "ready"
    /\ ctor.kw = [base_url |-> BaseUrl("http://example.com:9000", "", 0, TRUE),
                  timeout |-> 60]
    /\ client.base_url.origin = "http://example.com:9000"
    /\ client.timeout = 60

\* the session object s refers to, whatever was called on it
SessionRef(s) ==
    IF s = NoSession THEN NoSession ELSE [owner |-> s.owner, retry |-> s.retry]

\* C18: once the constructor has returned, no step of any operation (an
\* operation call that succeeds, fails or is rejected, close, __enter__,
\* __exit__) changes base_url, timeout, retries or the session the client
\* is bound to.
C18_ConfigurationFixed ==
    [][phase = "ready"
         => /\ client' = client
            /\ SessionRef(session') = SessionRef(session)]_vars

\* C18 witness: a client that had a call fail and was closed still holds the
\* configuration of its constructor call
C18_Witness ==
    /\ phase = "ready"
    /\ calls[Main].pc = "Failed"
    /\ session.closeCalls >= 1
    /\ client = NewClient(ctor.kw)

C20_ErrorText ==
    made # NoError
    => /\ made.err.message = made.given.message
       /\ IF made.given.details \in {PyNone, EmptyDict}
          THEN /\ made.err.details = EmptyDict
               /\ made.text = [text |-> made.given.message]
          ELSE /\ made.err.details = made.given.details
               /\ made.text = [text |-> made.given.message,
                               sep |-> " - Details: ",
                               details |-> made.given.details]

\* C20 witness: NenDBError("Connection failed", details={"status_code": 500})
C20_Witness ==
    /\ made # NoError
    /\ made.err.cls = "NenDBError"
    /\ made.given = [message |-> [fmt |-> "Connection failed"],
                     details |-> [status_code |-> 500]]
    /\ made.err.details.status_code = 500
    /\ made.text.text = [fmt |-> "Connection failed"]

C22_BoundedRetries ==
    /\ [](\A t \in Threads :
             ("history" \in DOMAIN calls[t] /\ session.owner = "client")
             => Attempts(calls[t]) <= 1 + client.retries)
    /\ \A t \in Threads :
          (calls[t].pc = "Dispatching")
          ~> (calls[t].pc \in {"Succeeded", "Failed"})

\* C22 witness: a call on the client's own session with the default retry
\* count has failed after 1 + 3 attempts that all met a connection error
C22_Witness ==
    \E t \in Threads :
       /\ Answered(calls[t]) /\ session.owner = "client"
       /\ client.retries = 3
       /\ calls[t].history = <<0, 0, 0>>
       /\ Attempts(calls[t]) = 4
       /\ calls[t].last.kind = "error"
       /\ calls[t].pc = "Failed"

\* C23: for a response with a status of 400 or more the call fails with
\* NenDBResponseError.  If the body decodes to a JSON mapping the details
\* are the status code and the decoded body, and the message carries the
\* body's "error" field if it has one; if the body does not decode or is no
\* mapping, the details are the status code alone; without an error field
\* the message carries the text of the HTTPError, built from the status.
C23_ErrorBodyCases ==
    \A t \in Threads :
       LET c == calls[t]
           j == JsonLoads(c.raw.text)
           generic == [text |-> [fmt |-> "{} Error for url",
                                 status |-> c.raw.status_code]]
       IN  (Answered(c) /\ c.raw.kind = "response" /\ c.raw.status_code >= 400)
           => /\ c.pc = "Failed"
              /\ c.err.cls = "NenDBResponseError"
              /\ c.err.message.endpoint = Endpoint(c.op)
              /\ IF j.ok /\ j.value.j = "object"
                 THEN /\ c.err.details = [status_code |-> c.raw.status_code,
                                          response |-> j.value]
                      /\ c.err.message.error_msg =
                           IF "error" \in DOMAIN j.value.o
                           THEN [s |-> j.value.o.error]
                           ELSE generic
                 ELSE /\ c.err.details = [status_code |-> c.raw.status_code]
                      /\ c.err.message.error_msg = generic

\* C23 witness: a dijkstra call answered 400 with the body
\* {"error": "node not found"} failed with that text in its message and the
\* decoded body in its details
C23_Witness ==
    \E t \in Threads :
       /\ Answered(calls[t]) /\ calls[t].op = "dijkstra"
       /\ calls[t].raw = [kind |-> "response", status_code |-> 400,
                          text |-> ErrorText]
       /\ calls[t].err.message.error_msg = [s |-> "node not found"]
       /\ calls[t].err.details.response = JsonLoads(ErrorText).value

\* the first error record (NenDBError or a subclass) created in call c: by
\* the validation, else in the body of the try statement of _make_request,
\* else by the except clause that handles the exception of the try body
FirstErrorRecord(c) ==
    LET v == Validate(c.op, c.args)
        b == TryBody(c.raw)
    IN  IF ~v.ok
        THEN v.exc
        ELSE IF b.exc.cls \in NenDBClasses
        THEN b.exc
        ELSE Handlers(b.exc, c.raw, Endpoint(c.op), client.timeout)

\* C24: the error a caller's failed call raises is the first error record
\* created in that call, with the same class, message and details.
C24_ErrorUnchanged ==
    \A t \in Threads :
       LET c == calls[t]
       IN  (c.pc = "Failed" /\ c.by = "caller"
              /\ (c.sent = 0 => ~Validate(c.op, c.args).ok))
           => c.err = FirstErrorRecord(c)

\* C25: with calls of several threads in flight on one client, a step of
\* one call leaves every other call as it is, an ended call holds the
\* outcome _make_request gives for its own request and what session.request
\* did with it, and a thread that is in no call can start one whatever the
\* calls of the other threads are doing.
C25_CallsIndependent ==
    /\ [][\A t, u \in Threads :
             (t # u /\ calls'[t] # calls[t]) => calls'[u] = calls[u]]_vars
    /\ [](\A t \in Threads :
             LET c == calls[t]
                 r == MakeRequest(c.raw, Endpoint(c.op), client.timeout)
             IN  Answered(c)
                 => /\ c.req.url.path = Endpoint(c.op)
                    /\ IF r.ret
                       THEN c.pc = "Succeeded" /\ c.result = r.value
                       ELSE c.pc = "Failed" /\ c.err = r.exc)
    /\ [](\A t \in Threads :
             (phase = "ready" /\ calls[t].pc = "idle")
             => ENABLED (\E op \in RetryOps :
                            \E a \in RetryArgsOf(op) : Invoke(t, op, a)))

\* C25 witness: the health call of one thread has failed while the bfs call
\* of the other thread, dispatched before, is still in flight
C25_Witness ==
    /\ calls["t1"].pc = "Failed" /\ calls["t1"].op = "health"
    /\ calls["t1"].sent = 1
    /\ calls["t2"].pc = "Dispatching" /\ calls["t2"].op = "bfs"
    /\ calls["t2"].history = <<503>>

\* C26: the client holds the base address without its trailing slashes, and
\* the URL of every dispatched request is the origin (scheme, host, port) of
\* the base address passed to the constructor followed by the path of the
\* operation; a path of the base address is not part of it.
C26_UrlJoined ==
    /\ client # NoClient
       => /\ client.base_url.slashes = 0
          /\ client.base_url.origin = Arg(ctor.kw, "base_url").origin
          /\ client.base_url.path = Arg(ctor.kw, "base_url").path
    /\ \A t \in Threads :
          LET c == calls[t]
          IN  (Made(c) /\ c.sent = 1)
              => c.req.url = [origin |-> Arg(ctor.kw, "base_url").origin,
                              path |-> Endpoint(c.op)]

\* C26 witness: on a client constructed with "http://localhost:8080/api/" a
\* graph_stats call dispatched "http://localhost:8080/graph/stats"
C26_Witness ==
    /\ ctor # NoCtor
    /\ Arg(ctor.kw, "base_url") = BaseUrl("http://localhost:8080", "/api", 1,
                                          TRUE)
    /\ calls[Main].pc # "idle"
    /\ calls[Main].op = "graph_stats"
    /\ calls[Main].sent = 1
    /\ calls[Main].req.url = [origin |-> "http://localhost:8080",
                              path |-> "/graph/stats"]

\* C27: a session passed to the constructor is bound as it is, without the
\* retry policy of the client, and a call on it makes one attempt whatever
\* the retry count of the constructor; a session the client creates has the
\* policy with that retry count, the status list and the method list.
C27_GivenSessionAsIs ==
    ctor # NoCtor
    => IF ctor.given
       THEN /\ session.owner = "caller"
            /\ session.retry = NoRetry
            /\ \A t \in Threads :
                  "history" \in DOMAIN calls[t] => Attempts(calls[t]) = 1
       ELSE /\ session.owner = "client"
            /\ session.retry # NoRetry
            /\ session.retry.total = client.retries
            /\ session.retry.status_forcelist = {429, 500, 502, 503, 504}
            /\ session.retry.allowed_methods
                 = {"HEAD", "GET", "OPTIONS", "POST"}
            /\ session.retry.backoff_factor = 1

\* C27 witness: on a client constructed with a session of the caller and
\* the default retry count 3, a call answered 503 ended after one attempt
\* with that response delivered
C27_Witness ==
    /\ ctor # NoCtor /\ ctor.given
    /\ client.retries = 3
    /\ Answered(calls[Main]) /\ calls[Main].by = "caller"
    /\ calls[Main].history = <<>>
    /\ calls[Main].raw.kind = "response"
    /\ calls[Main].raw.status_code = 503

\* C28: close() calls session.close() on the session the client is bound
\* to, whoever created it: in every state a close() adds one close call and
\* keeps the session, and a with-block exit on a session of the caller does
\* the same.
C28_ClosesAnySession ==
    /\ [](session # NoSession
            => /\ CloseSession(session).closeCalls = session.closeCalls + 1
               /\ SessionRef(CloseSession(session)) = SessionRef(session))
    /\ [][(session # NoSession /\ session.owner = "caller"
             /\ scope = "in" /\ scope' # "in")
            => session'.closeCalls = session.closeCalls + 1]_vars

\* C28 witness: a session passed by the caller has been closed by the client
C28_Witness ==
    /\ phase = "ready"
    /\ ctor.given
    /\ session.owner = "caller"
    /\ session.closeCalls >= 1

\* C29: close() keeps the session reference and sets no flag: after any
\* number of close() calls or with-block exits a thread that is in no call
\* can start one, and the call is validated and dispatched exactly as on a
\* client that was never closed, through the same session.
C29_NoClosedState ==
    /\ []((phase = "ready" /\ session.closeCalls >= 1)
            => /\ SessionRef(session) = SessionRef(BindSession(ctor.given,
                                                              client.retries))
               /\ calls[Main].pc = "idle"
                  => ENABLED (\E op \in Ops :
                                 \E a \in ArgsOf(op) : Invoke(Main, op, a)))
    /\ [][\A t \in Threads :
             (phase = "ready" /\ session.closeCalls >= 1
                /\ calls[t].pc = "idle" /\ calls'[t].pc # "idle")
             => /\ calls'[t].closes = session.closeCalls
                /\ calls'[t].pc = StartCall(client, calls'[t].op,
                                            calls'[t].kw, "caller").pc
                /\ calls'[t].sent = StartCall(client, calls'[t].op,
                                              calls'[t].kw, "caller").sent
                /\ session' = session]_vars

\* C29 witness: a bfs call begun after close() was dispatched and has
\* succeeded
C29_Witness ==
    /\ calls[Main].pc = "Succeeded"
    /\ calls[Main].op = "bfs"
    /\ calls[Main].by = "caller"
    /\ calls[Main].closes >= 1
    /\ calls[Main].sent = 1

\* C30: when the constructor raises on its probe, the session it created
\* has not been closed, and it is never closed afterwards (no client was
\* returned on which close() could be called).
C30_SessionLeftOpen ==
    (phase = "failed" /\ ~ctor.given)
    => /\ ctorError.cls = "NenDBConnectionError"
       /\ session.owner = "client"
       /\ session.closeCalls = 0

\* C30 witness: the probe of a constructor that created its session was
\* dispatched and failed; the constructor raised with the session open
C30_Witness ==
    /\ phase = "failed"
    /\ ~ctor.given
    /\ calls[Main].sent = 1
    /\ ctorError.cls = "NenDBConnectionError"
    /\ session.closeCalls = 0

====
